---- MODULE Spec2Model ----
(***************************************************************************)
(* Model of gag-stock-clone/server.mjs: the snapshot provider              *)
(* (fetchWithTimeout, simulateStock, fetchMockStock), the one-shot handler *)
(* GET /api/stock and the streaming handler GET /api/stock/stream with its *)
(* tick loop.                                                              *)
(*                                                                         *)
(* JavaScript runs each callback to completion, so one action is one       *)
(* callback together with the promise continuations it releases.  The only *)
(* continuation kept apart is the one that resumes a handler after         *)
(* `await fetchMockStock()`: it reads the clock again, and the clock may   *)
(* have advanced since fetchMockStock read it.                             *)
(*                                                                         *)
(* Time is in milliseconds.  The clock is observed at a resolution of      *)
(* StepMs; a timer fires at the first observed instant at or after its     *)
(* deadline, and time does not pass while a due timer or a released        *)
(* continuation is waiting to run.                                         *)
(***************************************************************************)
EXTENDS Integers, Sequences, FiniteSets, TLC

\* ---------------------------------------------------------------- bounds
StepMs == 2000
MaxTime == 22000
MaxCount == 5
MaxArrive == 2000
MaxLatency == 4000

\* ------------------------------------------------------ program constants
TimeoutMs == 2000
IntervalMs == 10000

Subs == {"s1", "s2"}
Reqs == {"r1"}
Callers == Subs \cup Reqs

NoTimer == -1
Never == -1
None == [t |-> "none"]

\* ------------------------------------------------------- JavaScript values
Undefined == [t |-> "undefined"]
JNull == [t |-> "null"]
NaN == [t |-> "nan"]
Num(n) == [t |-> "number", n |-> n]
Str(s) == [t |-> "string", s |-> s]
Obj(sc, oic) == [t |-> "object", stargazers_count |-> sc, open_issues_count |-> oic]

\* repo.<field>: a TypeError on null, undefined on a primitive, on an array and
\* on an object without the field.
Throws(repo) == repo.t = "null"

Member(repo, field) ==
    IF repo.t = "object"
    THEN (IF field = "stargazers_count" THEN repo.stargazers_count ELSE repo.open_issues_count)
    ELSE Undefined

\* the count used as it is, without `?? 0`
CoalesceDropped(v) == v

\* v ?? 0
Coalesce(v) == IF v.t \in {"undefined", "null"} THEN Num(0) ELSE v

\* v % 2 in JavaScript: the remainder takes the sign of the dividend, and a
\* string that is no number converts to NaN.
Rem2(v) ==
    IF v.t = "number"
    THEN (IF v.n >= 0 THEN Num(v.n % 2) ELSE Num(-((-v.n) % 2)))
    ELSE NaN

\* x === n for a number n
StrictEq(x, n) == x.t = "number" /\ x.n = n

Item(category, item, inStock, lastSeen) ==
    [category |-> category, item |-> item, inStock |-> inStock, lastSeen |-> lastSeen]

\* simulateStock with the Gear entry left out of the array literal
simulateStockTwoItems(t, d1, d2, d3) ==
    << Item("Seeds", "Sunflower Seed", d1 > 5, t),
       Item("Eggs", "Chicken Egg", d2 > 5, t) >>

\* simulateStock with the clock reading t and the three Math.random() draws, in
\* tenths
simulateStock(t, d1, d2, d3) ==
    << Item("Seeds", "Sunflower Seed", d1 > 5, t),
       Item("Eggs", "Chicken Egg", d2 > 5, t),
       Item("Gear", "Watering Can", d3 > 5, t) >>

\* fetchMockStock with `now` read once when the module loads instead of in the call
derivedStockHoistedNow(repo, t) ==
    << Item("Seeds", "Sunflower Seed",
            StrictEq(Rem2(Coalesce(Member(repo, "stargazers_count"))), 0), 0),
       Item("Eggs", "Chicken Egg",
            StrictEq(Rem2(Coalesce(Member(repo, "open_issues_count"))), 1), 0),
       Item("Gear", "Watering Can", TRUE, 0) >>

\* the array literal of fetchMockStock, built from the parsed body
derivedStock(repo, t) ==
    << Item("Seeds", "Sunflower Seed",
            StrictEq(Rem2(Coalesce(Member(repo, "stargazers_count"))), 0), t),
       Item("Eggs", "Chicken Egg",
            StrictEq(Rem2(Coalesce(Member(repo, "open_issues_count"))), 1), t),
       Item("Gear", "Watering Can", TRUE, t) >>

\* An upstream outcome, as fetchMockStock meets it:
\*   "neterr"  fetch rejects (network error)
\*   "abort"   fetch rejects because the timer aborted it
\*   "badjson" response.json() rejects (the body is no JSON, or the body stream fails)
\*   "json"    response.json() resolves with `body`
Failed(kind) == [kind |-> kind, body |-> Undefined]
Parsed(body) == [kind |-> "json", body |-> body]

\* What the try block of fetchMockStock does with the outcome: "throw" or "return"
TryBlock(up) == IF up.kind # "json" \/ Throws(up.body) THEN "throw" ELSE "return"

\* a try/catch drawn around the fetch and the parse only, not around the array literal
CaughtBeforeDerivation(up) == up.kind # "json"

\* Does the catch clause of fetchMockStock take the exception?
Caught(up) == TRUE

\* The value fetchMockStock settles with: ok = FALSE is a rejection
fetchMockStock(up, t, d1, d2, d3) ==
    IF TryBlock(up) = "return"
    THEN [ok |-> TRUE, source |-> "derived", items |-> derivedStock(up.body, t)]
    ELSE IF Caught(up)
         THEN [ok |-> TRUE, source |-> "fallback", items |-> simulateStock(t, d1, d2, d3)]
         ELSE [ok |-> FALSE, source |-> "error", items |-> << >>]


\* The bodies the upstream serves in the timed specification, and the outcomes
\* of one call in the specification of the Provider alone.
Counts == {Undefined, JNull, Str("abc")} \cup {Num(n) : n \in -MaxCount..MaxCount}
Bodies == {JNull, Num(7), Str("rate limited")} \cup {Obj(a, b) : a \in Counts, b \in Counts}
StreamBodies ==
    {JNull, Num(7), Obj(Num(4), Num(5)), Obj(Num(3), Num(2)), Obj(Undefined, Undefined)}
Draws == {5, 9}

\* ------------------------------------------------------------------ state
VARIABLES
    now,         \* the clock, in ms
    pc,          \* where each handler stands: "idle" (no request yet), "headers"
                 \* (awaiting fetch), "body" (awaiting response.json()), "resume"
                 \* (fetchMockStock has settled, the handler's continuation is
                 \* queued), "wait" (awaiting the 10 s timer), "done"
    active,      \* the flag of each streaming handler
    chan,        \* each stream's channel: "none", "open", "closed"
    abortTimer,  \* deadline of the pending abort timer of each call, or NoTimer
    waitTimer,   \* deadline of the pending 10 s timer of each tick loop, or NoTimer
    callStart,   \* when the call in flight of each handler began
    connectAt,   \* when each stream connected
    resolved,    \* the settled fetchMockStock promise whose continuation is queued
    sent,        \* the response or event the last step handed to res.json / res.write
    events,      \* 'stock' events written to each stream while it was open
    lateWrites,  \* res.write calls made on each stream after its close event
    lateCalls,   \* Provider calls of each stream begun or settled after its close event
    crashed,     \* an exception left a handler (unhandled rejection)
    calls,       \* fetchMockStock calls each handler has begun
    lastWrite,   \* when tick last wrote an event to each stream, or Never
    probe        \* the Provider alone: one outcome and what fetchMockStock made of it

vars == << now, pc, active, chan, abortTimer, waitTimer, callStart, connectAt,
           resolved, sent, events, lateWrites, lateCalls, crashed, calls, lastWrite,
           probe >>

\* No request has arrived yet
Quiet ==
    /\ now = 0
    /\ pc = [c \in Callers |-> "idle"]
    /\ active = [s \in Subs |-> TRUE]
    /\ chan = [s \in Subs |-> "none"]
    /\ abortTimer = [c \in Callers |-> NoTimer]
    /\ waitTimer = [s \in Subs |-> NoTimer]
    /\ callStart = [c \in Callers |-> 0]
    /\ connectAt = [s \in Subs |-> 0]
    /\ resolved = None
    /\ sent = None
    /\ events = [s \in Subs |-> 0]
    /\ lateWrites = [s \in Subs |-> 0]
    /\ lateCalls = [s \in Subs |-> 0]
    /\ crashed = FALSE
    /\ calls = [c \in Callers |-> 0]
    /\ lastWrite = [s \in Subs |-> Never]

Init == Quiet /\ probe = None

\* ----------------------------------------------------------------- timers
\* Past the horizon time is no longer measured: a pending timer may fire, and
\* no loop begins another iteration.
AtHorizon == now + StepMs > MaxTime
Due(deadline) == deadline # NoTimer /\ (deadline <= now \/ AtHorizon)
Overdue(deadline) == deadline # NoTimer /\ deadline <= now

\* an exit of fetchWithTimeout that leaves the timer armed
clearTimeoutForgotten(id) == id

\* clearTimeout(id)
clearTimeout(id) == NoTimer

\* The abort timer once fetch has resolved with the response
TimerAfterHeaders(id) == clearTimeout(id)

\* Requests arrive in the first MaxArrive ms.  The upstream delivers a body
\* within MaxLatency ms of the call's start, or never.
MayArrive == now <= MaxArrive
BodyInTime(c) == now - callStart[c] <= MaxLatency

\* No promise continuation is queued: the event loop may run the next callback
Idle == ~crashed /\ resolved = None

Closed(c) == c \in Subs /\ chan[c] = "closed"
Late(c) == IF Closed(c) THEN 1 ELSE 0

\* --------------------------------------------------------------- Provider
\* fetchMockStock() -> fetchWithTimeout(): arm the abort timer, start fetch
StartCall(c) ==
    /\ pc' = [pc EXCEPT ![c] = "headers"]
    /\ abortTimer' = [abortTimer EXCEPT ![c] = now + TimeoutMs]
    /\ callStart' = [callStart EXCEPT ![c] = now]
    /\ calls' = [calls EXCEPT ![c] = @ + 1]

\* Math.random() is drawn only where simulateStock runs
DrawsFor(up) ==
    IF TryBlock(up) = "return" THEN {<< 5, 5, 5 >>} ELSE Draws \X Draws \X Draws

\* fetchMockStock settles for caller c on the upstream outcome up
Settle(c, up) ==
    /\ \E d \in DrawsFor(up) :
           resolved' = [who |-> c, val |-> fetchMockStock(up, now, d[1], d[2], d[3]),
                        call |-> calls[c], latency |-> now - callStart[c], drift |-> 0]
    /\ pc' = [pc EXCEPT ![c] = "resume"]
    /\ abortTimer' = [abortTimer EXCEPT ![c] = clearTimeout(abortTimer[c])]
    /\ callStart' = [callStart EXCEPT ![c] = 0]
    /\ lateCalls' = IF c \in Subs THEN [lateCalls EXCEPT ![c] = @ + Late(c)] ELSE lateCalls

\* fetch resolves with the response: the timer is cleared, response.json() begins
FetchResolves(c) ==
    /\ Idle /\ pc[c] = "headers"
    /\ pc' = [pc EXCEPT ![c] = "body"]
    /\ abortTimer' = [abortTimer EXCEPT ![c] = TimerAfterHeaders(abortTimer[c])]
    /\ UNCHANGED << now, active, chan, waitTimer, callStart, connectAt, resolved,
                    events, lateWrites, lateCalls, crashed, calls, lastWrite, probe >>
    /\ sent' = None

\* fetch rejects with a network error
FetchRejects(c) ==
    /\ Idle /\ pc[c] = "headers"
    /\ Settle(c, Failed("neterr"))
    /\ UNCHANGED << now, active, chan, waitTimer, connectAt, events, lateWrites,
                    crashed, calls, lastWrite, probe >>
    /\ sent' = None

\* the abort timer fires: controller.abort() rejects whatever the call awaits
AbortFires(c) ==
    /\ Idle /\ pc[c] \in {"headers", "body"}
    /\ Due(abortTimer[c])
    /\ Settle(c, Failed("abort"))
    /\ UNCHANGED << now, active, chan, waitTimer, connectAt, events, lateWrites,
                    crashed, calls, lastWrite, probe >>
    /\ sent' = None

\* response.json() resolves with the parsed body
JsonResolves(c) ==
    /\ Idle /\ pc[c] = "body" /\ BodyInTime(c)
    /\ \E body \in StreamBodies : Settle(c, Parsed(body))
    /\ UNCHANGED << now, active, chan, waitTimer, connectAt, events, lateWrites,
                    crashed, calls, lastWrite, probe >>
    /\ sent' = None

\* response.json() rejects
JsonRejects(c) ==
    /\ Idle /\ pc[c] = "body" /\ BodyInTime(c)
    /\ Settle(c, Failed("badjson"))
    /\ UNCHANGED << now, active, chan, waitTimer, connectAt, events, lateWrites,
                    crashed, calls, lastWrite, probe >>
    /\ sent' = None

\* --------------------------------------------------------- GET /api/stock
GetStock(r) ==
    /\ Idle /\ pc[r] = "idle" /\ MayArrive
    /\ StartCall(r)
    /\ UNCHANGED << now, active, chan, waitTimer, connectAt, resolved, events,
                    lateWrites, lateCalls, crashed, lastWrite, probe >>
    /\ sent' = None

\* The settled promise a handler resumes on is the one of its own
\* fetchMockStock() call
AwaitedAny(c) == TRUE

Awaited(c) == resolved.who = c

\* updatedAt read once when the server starts
PayloadStartupTime(items, t) == [updatedAt |-> 0, items |-> items]

\* { updatedAt: new Date().toISOString(), items }
Payload(items, t) == [updatedAt |-> t, items |-> items]

\* the handler resumes after `await fetchMockStock()` and answers
Respond(r) ==
    /\ ~crashed /\ resolved # None /\ Awaited(r) /\ r \in Reqs
    /\ IF resolved.val.ok
       THEN /\ sent' = [to |-> r, kind |-> "response", status |-> 200,
                        payload |-> Payload(resolved.val.items, now),
                        source |-> resolved.val.source,
                        call |-> [of |-> resolved.who, n |-> resolved.call],
                        chunks |-> << >>, latency |-> resolved.latency,
                        drift |-> resolved.drift, delivered |-> TRUE]
            /\ UNCHANGED crashed
       ELSE /\ crashed' = TRUE
            /\ sent' = None
    /\ pc' = [pc EXCEPT ![r] = "done"]
    /\ resolved' = None
    /\ UNCHANGED << now, active, chan, abortTimer, waitTimer, callStart, connectAt, events,
                    lateWrites, lateCalls, calls, lastWrite, probe >>

\* -------------------------------------------------- GET /api/stock/stream
GetStockStream(s) ==
    /\ Idle /\ pc[s] = "idle" /\ MayArrive
    /\ chan' = [chan EXCEPT ![s] = "open"]
    /\ active' = [active EXCEPT ![s] = TRUE]
    /\ connectAt' = [connectAt EXCEPT ![s] = now]
    /\ StartCall(s)
    /\ UNCHANGED << now, waitTimer, resolved, events, lateWrites, lateCalls,
                    crashed, lastWrite, probe >>
    /\ sent' = None

\* one `active` flag at module scope, shared by all streams
ClosedByShared(s) == Subs

\* The streams whose `active` flag the close handler of stream s clears
ClosedBy(s) == {s}

\* req.on("close", ...)
Close(s) ==
    /\ Idle /\ chan[s] = "open"
    /\ chan' = [chan EXCEPT ![s] = "closed"]
    /\ active' = [o \in Subs |-> IF o \in ClosedBy(s) THEN FALSE ELSE active[o]]
    /\ UNCHANGED << now, pc, abortTimer, waitTimer, callStart, connectAt, resolved,
                    events, lateWrites, lateCalls, crashed, calls, lastWrite, probe >>
    /\ sent' = None

\* res.write on a channel: the chunk goes out, or is dropped when the channel
\* has closed; it does not throw.
Delivered(s) == chan[s] = "open"

\* The res.write calls of one event: the `event:` line, then the `data:` line
\* with the payload
EventChunksDataTwice == << "event: stock", "data", "data" >>

EventChunks == << "event: stock", "data" >>

\* setTimeout with no delay
WaitDeadlineNoDelay(t) == t

\* The deadline of setTimeout(r, 10000) armed at t
WaitDeadline(t) == t + IntervalMs

\* tick resumes after `await fetchMockStock()`: build the payload, write the two
\* chunks of the event, arm the 10 s timer
Write(s) ==
    /\ ~crashed /\ resolved # None /\ Awaited(s) /\ s \in Subs
    /\ IF resolved.val.ok
       THEN /\ sent' = [to |-> s, kind |-> "event", status |-> 200,
                        payload |-> Payload(resolved.val.items, now),
                        source |-> resolved.val.source,
                        call |-> [of |-> resolved.who, n |-> resolved.call],
                        chunks |-> EventChunks, latency |-> resolved.latency,
                        drift |-> resolved.drift, delivered |-> Delivered(s)]
            /\ events' = [events EXCEPT ![s] = IF Delivered(s) THEN @ + 1 ELSE @]
            /\ lateWrites' = [lateWrites EXCEPT ![s] = @ + Len(EventChunks) * Late(s)]
            /\ waitTimer' = [waitTimer EXCEPT ![s] = WaitDeadline(now)]
            /\ lastWrite' = [lastWrite EXCEPT ![s] = now]
            /\ pc' = [pc EXCEPT ![s] = "wait"]
            /\ UNCHANGED crashed
       ELSE /\ crashed' = TRUE
            /\ pc' = [pc EXCEPT ![s] = "done"]
            /\ sent' = None
            /\ UNCHANGED << events, lateWrites, waitTimer, lastWrite >>
    /\ resolved' = None
    /\ UNCHANGED << now, active, chan, abortTimer, callStart, connectAt, lateCalls, calls,
                    probe >>

\* `while (true)`
LoopNeverStops(s) == TRUE

\* `while (active)` when the loop is about to begin another iteration
LoopGoesOn(s) == active[s]

\* the 10 s timer fires: tick resumes at the head of the loop
WaitElapses(s) ==
    /\ Idle /\ pc[s] = "wait" /\ Due(waitTimer[s])
    /\ waitTimer' = [waitTimer EXCEPT ![s] = NoTimer]
    /\ IF LoopGoesOn(s)
       THEN /\ ~AtHorizon
            /\ StartCall(s)
            /\ lateCalls' = [lateCalls EXCEPT ![s] = @ + Late(s)]
       ELSE /\ pc' = [pc EXCEPT ![s] = "done"]
            /\ UNCHANGED << abortTimer, callStart, lateCalls, calls >>
    /\ UNCHANGED << now, active, chan, connectAt, resolved, events, lateWrites,
                    crashed, lastWrite, probe >>
    /\ sent' = None

\* ------------------------------------------------------------------ clock
\* The clock advances one step.  Between fetchMockStock's reading of the clock
\* and the handler's it advances at most once.
Tick ==
    /\ ~crashed /\ ~AtHorizon
    /\ \A c \in Callers : ~Overdue(abortTimer[c])
    /\ \A s \in Subs : ~Overdue(waitTimer[s])
    /\ resolved # None => resolved.drift = 0
    /\ now' = now + StepMs
    /\ resolved' = IF resolved = None THEN None ELSE [resolved EXCEPT !.drift = StepMs]
    /\ UNCHANGED << pc, active, chan, abortTimer, waitTimer, callStart, connectAt,
                    events, lateWrites, lateCalls, crashed, calls, lastWrite, probe >>
    /\ sent' = None

Next ==
    \/ \E r \in Reqs : GetStock(r)
    \/ \E r \in Reqs : Respond(r)
    \/ \E s \in Subs : GetStockStream(s)
    \/ \E s \in Subs : Close(s)
    \/ \E s \in Subs : Write(s)
    \/ \E s \in Subs : WaitElapses(s)
    \/ \E c \in Callers : FetchResolves(c)
    \/ \E c \in Callers : FetchRejects(c)
    \/ \E c \in Callers : AbortFires(c)
    \/ \E c \in Callers : JsonResolves(c)
    \/ \E c \in Callers : JsonRejects(c)
    \/ Tick

Spec == Init /\ [][Next]_vars

\* The scheduling of the event loop: the clock runs, a due timer fires and a
\* queued continuation runs.  Nothing obliges the upstream or a client to act.
Fairness ==
    /\ WF_vars(Tick)
    /\ \A c \in Callers : WF_vars(AbortFires(c))
    /\ \A s \in Subs : WF_vars(WaitElapses(s)) /\ WF_vars(Write(s))
    /\ \A r \in Reqs : WF_vars(Respond(r))

FairSpec == Spec /\ Fairness

\* ------------------------------------------------------ the Provider alone
\* One call of fetchMockStock on each upstream outcome, answered by the
\* one-shot handler, with the clock standing still.
Outcomes ==
    {Failed("neterr"), Failed("abort"), Failed("badjson")} \cup {Parsed(b) : b \in Bodies}

ProviderInit ==
    /\ Quiet
    /\ \E up \in Outcomes : \E d \in DrawsFor(up) :
           probe = [stage |-> "pending", up |-> up, draws |-> d, val |-> None,
                    response |-> None]

ProbeSettles ==
    /\ probe.stage = "pending"
    /\ probe' = [probe EXCEPT
           !.stage = "settled",
           !.val = fetchMockStock(probe.up, now, probe.draws[1], probe.draws[2],
                                  probe.draws[3])]
    /\ UNCHANGED << now, pc, active, chan, abortTimer, waitTimer, callStart, connectAt,
                    resolved, sent, events, lateWrites, lateCalls, crashed, calls,
                    lastWrite >>

ProbeAnswers ==
    /\ probe.stage = "settled"
    /\ probe' = IF probe.val.ok
                THEN [probe EXCEPT !.stage = "answered",
                                   !.response = [status |-> 200,
                                                 payload |-> Payload(probe.val.items, now)]]
                ELSE [probe EXCEPT !.stage = "crashed"]
    /\ UNCHANGED << now, pc, active, chan, abortTimer, waitTimer, callStart, connectAt,
                    resolved, sent, events, lateWrites, lateCalls, crashed, calls,
                    lastWrite >>

ProviderNext == ProbeSettles \/ ProbeAnswers

ProviderSpec == ProviderInit /\ [][ProviderNext]_vars

\* ================================================================== claims
InFlight(c) == pc[c] \in {"headers", "body"}

\* C1: after the close event of a stream has fired, its tick loop attempts no
\* further write on that channel, whenever the close arrives.
C1_NoWriteAfterClose == \A s \in Subs : lateWrites[s] = 0

\* C2: every Provider call eventually returns, whatever the upstream does: a
\* call in flight leads to that call having settled.
C2_ProviderCallReturns == \A c \in Callers : InFlight(c) ~> ~InFlight(c)

\* C4: when the upstream takes longer than the timeout to deliver its complete
\* response, the one-shot endpoint answers at the timeout (the first observed
\* instant at or after it) and with the fallback snapshot; no request is still
\* unanswered after the timeout.
C4_SlowUpstreamAnsweredByFallback ==
    /\ \A r \in Reqs : InFlight(r) => now - callStart[r] <= TimeoutMs
    /\ (sent # None /\ sent.kind = "response" /\ sent.latency > TimeoutMs)
           => (sent.source = "fallback" /\ sent.latency - TimeoutMs < StepMs)

\* C8: a stream that has stayed connected for more than 20 s has received at
\* least 2 'stock' events.
C8_TwoEventsInTwentySeconds ==
    \A s \in Subs :
        (chan[s] = "open" /\ now - connectAt[s] > 2 * IntervalMs) => events[s] >= 2

\* C9: once a stream's channel has closed its loop eventually exits.
C9_ClosedLoopExits == \A s \in Subs : (chan[s] = "closed") ~> (pc[s] = "done")

FixedOrder(items) ==
    /\ Len(items) = 3
    /\ items[1].category = "Seeds" /\ items[1].item = "Sunflower Seed"
    /\ items[2].category = "Eggs" /\ items[2].item = "Chicken Egg"
    /\ items[3].category = "Gear" /\ items[3].item = "Watering Can"

OneLastSeen(items) == \A i \in 1..Len(items), j \in 1..Len(items) : items[i].lastSeen = items[j].lastSeen

IsEven(n) == \E k \in -MaxCount..MaxCount : n = 2 * k
IsOdd(n) == \E k \in -MaxCount..MaxCount : n = 2 * k + 1

\* C3: on every upstream outcome fetchMockStock settles with a snapshot and no
\* error, and the one-shot handler answers 200 with that snapshot; no exception
\* leaves the handler.
C3_ProviderNeverFails ==
    probe # None =>
        /\ probe.stage # "crashed"
        /\ probe.stage \in {"settled", "answered"} =>
               (probe.val.ok /\ FixedOrder(probe.val.items))
        /\ probe.stage = "answered" =>
               (probe.response.status = 200 /\ probe.response.payload.items = probe.val.items)

C3_Witness ==
    /\ probe # None /\ probe.stage = "answered"
    /\ probe.up = Parsed(JNull)
    /\ probe.val.source = "fallback"
    /\ probe.response.status = 200

C6_ThreeItemsFixedOrder ==
    /\ resolved # None => (FixedOrder(resolved.val.items) /\ OneLastSeen(resolved.val.items))
    /\ sent # None => (FixedOrder(sent.payload.items) /\ OneLastSeen(sent.payload.items))

C6_Witness ==
    /\ sent # None /\ sent.kind = "event" /\ sent.source = "fallback"
    /\ Len(sent.payload.items) = 3
    /\ sent.payload.items[3].lastSeen > 0

\* C7: on a parsed body whose two counts are integers, negative ones included,
\* the snapshot is the derived one with item 1 in stock iff the primary count is
\* even, item 2 in stock iff the secondary count is odd, and item 3 in stock.
C7_ParityOfCounts ==
    (/\ probe # None /\ probe.stage # "pending"
     /\ probe.up.kind = "json" /\ probe.up.body.t = "object"
     /\ probe.up.body.stargazers_count.t = "number"
     /\ probe.up.body.open_issues_count.t = "number")
    => /\ probe.val.source = "derived"
       /\ probe.val.items[1].inStock = IsEven(probe.up.body.stargazers_count.n)
       /\ probe.val.items[2].inStock = IsOdd(probe.up.body.open_issues_count.n)
       /\ probe.val.items[3].inStock = TRUE

LoopOrder ==
    { << "idle", "headers" >>, << "headers", "body" >>, << "headers", "resume" >>,
      << "body", "resume" >>, << "resume", "wait" >>, << "wait", "headers" >>,
      << "wait", "done" >> }

C12_CallWriteWaitOrder ==
    [][\A s \in Subs :
        /\ pc[s] = "idle" /\ pc'[s] # "idle" =>
               /\ pc'[s] = "headers" /\ callStart'[s] = now /\ connectAt'[s] = now
               /\ waitTimer'[s] = NoTimer /\ calls'[s] = 1
        /\ pc'[s] # pc[s] => << pc[s], pc'[s] >> \in LoopOrder
        /\ lastWrite'[s] # lastWrite[s] =>
               /\ pc[s] = "resume" /\ pc'[s] = "wait"
               /\ sent'.kind = "event" /\ sent'.to = s
               /\ waitTimer'[s] = now + IntervalMs
               /\ lastWrite[s] = Never =>
                      now = connectAt[s] + resolved.latency + resolved.drift
               /\ lastWrite[s] # Never => now - lastWrite[s] >= IntervalMs
        /\ pc[s] = "wait" /\ pc'[s] = "headers" =>
               (waitTimer[s] # NoTimer /\ now >= waitTimer[s])]_vars

C12_Witness ==
    \E s \in Subs :
        /\ events[s] = 2 /\ sent # None /\ sent.to = s /\ sent.kind = "event"
        /\ lastWrite[s] - connectAt[s] >= IntervalMs

\* C13: fetchMockStock returns the derived snapshot only for a parsed object
\* body whose two count fields are numbers; every other outcome gives the
\* fallback.
C13_DerivedOnlyFromNumericCounts ==
    (probe # None /\ probe.stage # "pending" /\ probe.val.source = "derived")
    => /\ probe.up.kind = "json" /\ probe.up.body.t = "object"
       /\ probe.up.body.stargazers_count.t = "number"
       /\ probe.up.body.open_issues_count.t = "number"

\* C14: on a parsed object body a missing count counts as 0: without the
\* primary count item 1 is in stock, without the secondary count item 2 is not,
\* and the snapshot is the derived one.
C14_MissingCountIsZero ==
    (probe # None /\ probe.stage # "pending"
     /\ probe.up.kind = "json" /\ probe.up.body.t = "object")
    => /\ probe.up.body.stargazers_count = Undefined =>
              (probe.val.source = "derived" /\ probe.val.items[1].inStock = TRUE)
       /\ probe.up.body.open_issues_count = Undefined =>
              (probe.val.source = "derived" /\ probe.val.items[2].inStock = FALSE)

C14_Witness ==
    /\ probe # None /\ probe.stage = "answered"
    /\ probe.up = Parsed(Obj(Undefined, Undefined))
    /\ probe.val.source = "derived"
    /\ probe.val.items[1].inStock = TRUE /\ probe.val.items[2].inStock = FALSE

\* C15: a step of one stream (its close and its failed write included) or of a
\* one-shot request changes nothing of any other stream: flag, loop position,
\* timers, counters and connect time stay as they are; each stream's first call
\* begins at its own connect time.
SubState(s) ==
    << pc[s], active[s], chan[s], abortTimer[s], waitTimer[s], callStart[s],
       connectAt[s], events[s], lateWrites[s], lateCalls[s], calls[s], lastWrite[s] >>

ReqState(r) == << pc[r], abortTimer[r], callStart[r], calls[r] >>

C15_SubscriptionsIndependent ==
    [][/\ \A s \in Subs : SubState(s)' # SubState(s) =>
              \A o \in Subs \ {s} : SubState(o)' = SubState(o)
       /\ \A r \in Reqs : ReqState(r)' # ReqState(r) =>
              \A s \in Subs : SubState(s)' = SubState(s)
       /\ \A s \in Subs : (calls'[s] = 1 /\ pc'[s] \in {"headers", "body"}) =>
              callStart'[s] = connectAt'[s]]_vars

C15_Witness ==
    \E s \in Subs, o \in Subs :
        /\ connectAt[s] # connectAt[o]
        /\ chan[s] = "closed" /\ lateWrites[s] = 0 /\ pc[s] = "done"
        /\ chan[o] = "open" /\ active[o] /\ events[o] >= 2
        /\ \A r \in Reqs : pc[r] = "done"

\* C16: for each stream a call begins only when every earlier call has been
\* written, each settled call is written as exactly one event (one `event:`
\* line, one `data:` line), and the n-th event carries the snapshot of the n-th
\* call.
EventsWritten(s) == events[s] + (lateWrites[s] \div 2)

C16_OneEventPerCall ==
    /\ \A s \in Subs :
           calls[s] = EventsWritten(s) + IF pc[s] \in {"headers", "body", "resume"} THEN 1 ELSE 0
    /\ (resolved # None /\ resolved.who \in Subs) => resolved.call = calls[resolved.who]
    /\ (sent # None /\ sent.kind = "event") =>
           /\ sent.chunks = << "event: stock", "data" >>
           /\ sent.call = [of |-> sent.to, n |-> EventsWritten(sent.to)]

C16_Witness ==
    /\ sent # None /\ sent.kind = "event" /\ sent.delivered
    /\ sent.call.n = 2 /\ events[sent.to] = 2 /\ calls[sent.to] = 2

\* C17: in every snapshot handed to a response or a stream updatedAt is not
\* earlier than any item's lastSeen.
C17_UpdatedAtNotBeforeLastSeen ==
    sent # None =>
        \A i \in 1..Len(sent.payload.items) :
            sent.payload.items[i].lastSeen <= sent.payload.updatedAt

C17_Witness ==
    /\ sent # None /\ sent.kind = "response" /\ sent.source = "fallback"
    /\ sent.payload.items[3].lastSeen > 0
    /\ sent.payload.items[3].lastSeen < sent.payload.updatedAt

\* C18: an abort timer is pending only while its own call awaits fetch: it is
\* the timer armed at that call's start, and none is pending once
\* fetchWithTimeout has returned or thrown.
C18_AbortTimerOnlyWhileFetching ==
    \A c \in Callers :
        abortTimer[c] # NoTimer =>
            (pc[c] = "headers" /\ abortTimer[c] = callStart[c] + TimeoutMs)

C18_Witness ==
    \E s \in Subs :
        /\ calls[s] = 2 /\ pc[s] = "headers"
        /\ abortTimer[s] = callStart[s] + TimeoutMs

====
